---- MODULE Spec2Model ----
(***************************************************************************)
(* A model of the FrontKit React hook examples: the example components of  *)
(* useState.jsx, useReducer.jsx and the useContext file, each a component  *)
(* with hook state cells, a queue of updates that event handlers enqueue,  *)
(* and a render that folds the queue into the cells; the useEffect         *)
(* examples (Timer, CalculationEffect, AsyncDataFetcher), whose renders    *)
(* also run effects and cleanups; the useRef Timer; and counterStore of    *)
(* the useSyncExternalStore example, used by its Counter and by code that  *)
(* calls its methods; and the Modal of the useImperativeHandle file.  One   *)
(* behaviour runs one example: the examples share no state.                *)
(***************************************************************************)
EXTENDS Integers, Sequences, FiniteSets, TLC

VARIABLES
    mounted,           \* the example component this behaviour runs
    phase,             \* "new" | "mounted" | "crashed" (a render threw) |
                       \* "unmounted"
    hook,              \* the committed value of each state cell
    queue,             \* updates enqueued by handlers, not yet rendered
    view,              \* the cell values the last render showed and closed over
    now,               \* the clock Date.now() reads
    initialFormState,  \* the module-level object of useReducer.jsx:140
    authResult,        \* what useAuth did in the last render of AuthComponent
    clicks,            \* observation: Increment clicks and other dispatches
    call,              \* a reducer called directly: its arguments and results
    counterStore,      \* the module-level store of the useSyncExternalStore file
    client,            \* code that uses counterStore directly: what it holds
    timers,            \* the browser's intervals: the next id and the active ones
    timerRef,          \* timerRef.current of the useRef Timer
    effect,            \* what the closure of the component's live effect holds
    fetches            \* the fetches started, each with its effect's ignore flag

\* What lives outside the component's state cells.
outside == <<counterStore, client, timers, timerRef, effect, fetches>>

vars == <<mounted, phase, hook, queue, view, now, initialFormState,
          authResult, clicks, call, outside>>

\* ---------------------------------------------------------------- bounds

MaxQueue == 2      \* updates a handler may enqueue before the next render
MaxCount == 3      \* counters are exercised within -MaxCount..MaxCount
MaxTodoQueue == 1  \* the same for TodoList, whose updates are the most varied
MaxTodos == 2      \* the todo list is exercised up to this length
MaxTicks == 1      \* clock ticks after ClockStart
MaxTimers == 2     \* intervals one behaviour creates
MaxFetches == 3    \* effect runs of AsyncDataFetcher, each starting a fetch
MaxCalcCount == 8  \* CalculationEffect's count is exercised within 0..MaxCalcCount
ClockStart == 3    \* the first clock value (the initial todos have ids 1, 2)

Typed == {"", "a"}                 \* what a user types into an input
Titles == Typed
FieldNames == {"username", "email", "nickname"}
ActionTags == {"increment", "decrement", "reset", "add", "toggle", "delete",
               "updateField", "unknown"}
OtherTags == {"reset", "unknown"}  \* the tags dispatched outside the handlers

\* ---------------------------------------------------------------- values

\* What a call of a reducer does: it throws, or it returns the next state.
Threw == [threw |-> TRUE]
Returned(s) == [threw |-> FALSE, state |-> s]

\* { [field]: value }: the spread of obj left out
SpreadFieldOnly(obj, field, value) == [k \in {field} |-> value]

\* { ...obj, [field]: value }: a new object, obj's fields with field set.
Spread(obj, field, value) ==
    [k \in (DOMAIN obj) \cup {field} |-> IF k = field THEN value ELSE obj[k]]

\* array.map(f) and array.filter(keep) of the todo list
RECURSIVE MapTodos(_, _)
MapTodos(list, id) ==
    IF list = <<>> THEN <<>>
    ELSE LET todo == Head(list)
         IN  <<IF todo.id = id
               THEN [todo EXCEPT !.completed = ~todo.completed]
               ELSE todo>> \o MapTodos(Tail(list), id)

RECURSIVE FilterTodos(_, _)
FilterTodos(list, id) ==
    IF list = <<>> THEN <<>>
    ELSE (IF Head(list).id # id THEN <<Head(list)>> ELSE <<>>)
         \o FilterTodos(Tail(list), id)

\* ------------------------------------------------------- useState.jsx

\* reducer with the decrement case copied from increment
reducerCopiedCase(state, action) ==
    CASE action.type = "increment" -> Returned([count |-> state.count + 1])
      [] action.type = "decrement" -> Returned([count |-> state.count + 1])
      [] action.type = "reset"     -> Returned([count |-> 0])
      [] OTHER                     -> Threw

reducer(state, action) ==
    CASE action.type = "increment" -> Returned([count |-> state.count + 1])
      [] action.type = "decrement" -> Returned([count |-> state.count - 1])
      [] action.type = "reset"     -> Returned([count |-> 0])
      [] OTHER                     -> Threw

\* ------------------------------------------------------ useReducer.jsx

initialCount == [count |-> 0]

\* counterReducer with a default case that returns the state
counterReducerLenient(state, action) ==
    CASE action.type = "increment" -> Returned([count |-> state.count + 1])
      [] action.type = "decrement" -> Returned([count |-> state.count - 1])
      [] OTHER                     -> Returned(state)

counterReducer(state, action) ==
    CASE action.type = "increment" -> Returned([count |-> state.count + 1])
      [] action.type = "decrement" -> Returned([count |-> state.count - 1])
      [] OTHER                     -> Threw

initialTodos ==
    << [id |-> 1, title |-> "Learn React", completed |-> FALSE],
       [id |-> 2, title |-> "Learn useReducer", completed |-> FALSE] >>

\* todoReducer whose add puts the new todo first
todoReducerPrepend(state, action, dateNow) ==
    CASE action.type = "add" ->
           Returned(<<[id |-> dateNow, title |-> action.title,
                       completed |-> FALSE]>> \o state)
      [] action.type = "toggle" -> Returned(MapTodos(state, action.id))
      [] action.type = "delete" -> Returned(FilterTodos(state, action.id))
      [] OTHER                  -> Threw

\* dateNow is what Date.now() returns when the reducer runs.
todoReducer(state, action, dateNow) ==
    CASE action.type = "add" ->
           Returned(state \o <<[id |-> dateNow, title |-> action.title,
                                completed |-> FALSE]>>)
      [] action.type = "toggle" -> Returned(MapTodos(state, action.id))
      [] action.type = "delete" -> Returned(FilterTodos(state, action.id))
      [] OTHER                  -> Threw

\* The form state is a reference: to the module-level initialFormState object,
\* or to an object of its own that a spread created.
InitialFormFields == [username |-> "", email |-> ""]
NoFields == [k \in {} |-> ""]
RefInitial == [ref |-> "initialFormState", obj |-> NoFields]
RefOwn(obj) == [ref |-> "own", obj |-> obj]
Deref(state, ifs) == IF state.ref = "initialFormState" THEN ifs ELSE state.obj

\* formReducer whose updateField assigns into the state object it was given
formReducerInPlace(state, action, ifs) ==
    CASE action.type = "updateField" ->
           IF state.ref = "initialFormState"
           THEN [threw |-> FALSE, state |-> RefInitial,
                 ifs |-> Spread(ifs, action.field, action.value)]
           ELSE [threw |-> FALSE, ifs |-> ifs,
                 state |-> RefOwn(Spread(state.obj, action.field, action.value))]
      [] action.type = "reset" ->
           [threw |-> FALSE, ifs |-> ifs, state |-> RefInitial]
      [] OTHER -> Threw

\* ifs is the content of initialFormState when the reducer runs; the result
\* carries its content afterwards.
formReducer(state, action, ifs) ==
    CASE action.type = "updateField" ->
           [threw |-> FALSE, ifs |-> ifs,
            state |-> RefOwn(Spread(Deref(state, ifs), action.field, action.value))]
      [] action.type = "reset" ->
           [threw |-> FALSE, ifs |-> ifs, state |-> RefInitial]
      [] OTHER -> Threw

\* ------------------------------------------------------ useContext file

\* createContext() without a default: the value read with no provider above.
Undefined == [kind |-> "undefined"]
Null == [kind |-> "null"]
Falsy(v) == v.kind \in {"undefined", "null"} \/ (v.kind = "number" /\ v.n = 0)

\* The value AuthProvider hands to AuthContext.Provider.
AuthValue(isAuthenticated) ==
    [kind |-> "object", isAuthenticated |-> isAuthenticated,
     login |-> "login", logout |-> "logout"]

\* useContext(AuthContext) as seen by AuthComponent.
AuthContext(comp, cells) ==
    IF comp = "AuthApp" THEN AuthValue(cells.isAuthenticated) ELSE Undefined

\* useAuth with its test inverted
useAuthInverted(context) ==
    IF Falsy(context) THEN Returned(context) ELSE Threw

useAuth(context) ==
    IF Falsy(context) THEN Threw ELSE Returned(context)

NotCalled == [threw |-> FALSE, state |-> [kind |-> "null"]]

\* ------------------------------------------------------------ components

CounterComponents == {"Counter", "CounterWithReducer", "ReducerCounter"}
ReducerComponents == {"CounterWithReducer", "ReducerCounter", "TodoList", "Form"}
AuthComponents == {"AuthApp", "AuthBare"}
Components == CounterComponents \cup ReducerComponents \cup AuthComponents
                 \cup {"UserProfile"}

\* The components with a useEffect, the ones without, and everything one
\* behaviour can run: a component, or code that uses counterStore directly.
EffectComponents == {"EffectTimer", "CalculationEffect", "AsyncDataFetcher"}
PlainComponents == Components \cup {"RefTimer", "Modal"}
AllComponents == PlainComponents \cup EffectComponents
                    \cup {"StoreCounter", "StoreClient"}

\* The cell that holds a component's reducer state.
ReducerCell(comp) == IF comp = "TodoList" THEN "todos" ELSE "state"

\* The initial value of each state cell: the useState / useReducer calls.
InitialCells(comp) ==
    CASE comp = "Counter"            -> [count |-> 0]
      [] comp = "UserProfile"        -> [user |-> [name |-> "", age |-> ""]]
      [] comp = "CounterWithReducer" -> [state |-> [count |-> 0]]
      [] comp = "ReducerCounter"     -> [state |-> initialCount]
      [] comp = "TodoList"           -> [todos |-> initialTodos, newTodo |-> ""]
      [] comp = "Form"               -> [state |-> RefInitial]
      [] comp = "AuthApp"            -> [isAuthenticated |-> FALSE]
      [] comp = "StoreCounter"       -> [count |-> Undefined]
      [] comp = "EffectTimer"        -> [count |-> 0]
      [] comp = "CalculationEffect"  -> [count |-> 0, calculation |-> 0]
      [] comp = "AsyncDataFetcher"   -> [person |-> "Alice", bio |-> Null]
      [] comp = "RefTimer"           -> [seconds |-> 0]
      [] comp = "Modal"              -> [isOpen |-> FALSE]
      [] OTHER                       -> [none |-> FALSE]

\* The reducer a component passed to useReducer, called on one action.
Reduce(comp, state, action, dateNow, ifs) ==
    LET keep(r) == IF r.threw THEN Threw
                   ELSE [threw |-> FALSE, state |-> r.state, ifs |-> ifs]
    IN  CASE comp = "CounterWithReducer" -> keep(reducer(state, action))
          [] comp = "ReducerCounter"     -> keep(counterReducer(state, action))
          [] comp = "TodoList"           -> keep(todoReducer(state, action, dateNow))
          [] comp = "Form"               -> formReducer(state, action, ifs)

\* The updates handlers enqueue.
SetState(cell, value) == [cell |-> cell, kind |-> "set", value |-> value]
SetStateWith(cell, field, value) ==
    [cell |-> cell, kind |-> "updater", field |-> field, value |-> value]
SetStateNot(cell) == [cell |-> cell, kind |-> "not"]
SetStatePlus(cell, value) == [cell |-> cell, kind |-> "plus", value |-> value]
DispatchOf(comp, action) ==
    [cell |-> ReducerCell(comp), kind |-> "action", action |-> action]

\* ApplyUpdate for an updater written against the rendered value,
\* setUser({ ...user, [field]: value }), instead of the previous state
ApplyUpdateStale(comp, cells, u, dateNow, ifs) ==
    CASE u.kind = "set" ->
           [threw |-> FALSE, ifs |-> ifs,
            cells |-> [cells EXCEPT ![u.cell] = u.value]]
      [] u.kind = "updater" ->
           [threw |-> FALSE, ifs |-> ifs,
            cells |-> [cells EXCEPT ![u.cell] = Spread(view[u.cell], u.field, u.value)]]
      [] u.kind = "not" ->
           [threw |-> FALSE, ifs |-> ifs,
            cells |-> [cells EXCEPT ![u.cell] = ~@]]
      [] u.kind = "plus" ->
           [threw |-> FALSE, ifs |-> ifs,
            cells |-> [cells EXCEPT ![u.cell] = @ + u.value]]
      [] u.kind = "action" ->
           LET r == Reduce(comp, cells[u.cell], u.action, dateNow, ifs)
           IN  IF r.threw THEN Threw
               ELSE [threw |-> FALSE, ifs |-> r.ifs,
                     cells |-> [cells EXCEPT ![u.cell] = r.state]]

\* One queued update applied to the cells during a render.
ApplyUpdate(comp, cells, u, dateNow, ifs) ==
    CASE u.kind = "set" ->
           [threw |-> FALSE, ifs |-> ifs,
            cells |-> [cells EXCEPT ![u.cell] = u.value]]
      [] u.kind = "updater" ->
           [threw |-> FALSE, ifs |-> ifs,
            cells |-> [cells EXCEPT ![u.cell] = Spread(cells[u.cell], u.field, u.value)]]
      [] u.kind = "not" ->
           [threw |-> FALSE, ifs |-> ifs,
            cells |-> [cells EXCEPT ![u.cell] = ~@]]
      [] u.kind = "plus" ->
           [threw |-> FALSE, ifs |-> ifs,
            cells |-> [cells EXCEPT ![u.cell] = @ + u.value]]
      [] u.kind = "action" ->
           LET r == Reduce(comp, cells[u.cell], u.action, dateNow, ifs)
           IN  IF r.threw THEN Threw
               ELSE [threw |-> FALSE, ifs |-> r.ifs,
                     cells |-> [cells EXCEPT ![u.cell] = r.state]]

\* A render processes the queued updates in order; a throw aborts it.
RECURSIVE Process(_, _, _, _, _)
Process(comp, cells, q, dateNow, ifs) ==
    IF q = <<>> THEN [threw |-> FALSE, cells |-> cells, ifs |-> ifs]
    ELSE LET r == ApplyUpdate(comp, cells, Head(q), dateNow, ifs)
         IN  IF r.threw THEN Threw
             ELSE Process(comp, r.cells, Tail(q), dateNow, r.ifs)

\* The useAuth call of a render of AuthComponent.
RenderAuth(comp, cells) ==
    IF comp \in AuthComponents THEN useAuth(AuthContext(comp, cells)) ELSE NotCalled

NoCall == [made |-> FALSE]

\* inc, other: Increment clicks (or ticks of an interval) and other
\* dispatches handled so far;
\* renders: renders since the last click; effects: runs of the effect.
NoClicks == [inc |-> 0, other |-> FALSE, renders |-> 0, effects |-> 0]

\* ---------------------------------------------------------- counterStore

\* What `this` is in a call of one of counterStore's functions: the store
\* when the function is called as a method, counterStore.f(), and undefined
\* when the function was taken off the store and called on its own (the
\* file is an ES module, so its code is strict).
StoreThis == "counterStore"
UndefinedThis == "undefined"

\* Set.prototype.add, .delete and .has on a Set kept in insertion order.
SetHas(set, x) == \E i \in DOMAIN set : set[i] = x
SetAddAgain(set, x) == Append(set, x)
SetAdd(set, x) == IF SetHas(set, x) THEN set ELSE Append(set, x)
SetDelete(set, x) == SelectSeq(set, LAMBDA y : y # x)

\* getSnapshot() { return this.value; }
getSnapshot(this, store) ==
    IF this = UndefinedThis THEN Threw ELSE Returned(store.value)

\* subscribe(listener): the store after the call, and the listener that the
\* returned function () => this.listeners.delete(listener) removes.
subscribe(this, store, listener) ==
    IF this = UndefinedThis THEN Threw
    ELSE [threw |-> FALSE,
          store |-> [store EXCEPT !.listeners = SetAdd(@, listener)],
          unsubscribe |-> listener]

\* The function subscribe returned, called: its `this` is the store that
\* subscribe was called on.
unsubscribe(store, listener) ==
    [store EXCEPT !.listeners = SetDelete(@, listener)]

\* increment() with the two statements in the other order
incrementNotifyFirst(this, store) ==
    IF this = UndefinedThis THEN Threw
    ELSE LET after == [store EXCEPT !.value = @ + 1]
         IN  [threw |-> FALSE, store |-> after,
              calls |-> [i \in DOMAIN store.listeners |->
                           [listener |-> store.listeners[i], store |-> store]]]

\* increment(): this.value++, then each listener of the set is called, in
\* order; calls[i] is the i-th call and the store as that call finds it.
increment(this, store) ==
    IF this = UndefinedThis THEN Threw
    ELSE LET after == [store EXCEPT !.value = @ + 1]
         IN  [threw |-> FALSE, store |-> after,
              calls |-> [i \in DOMAIN after.listeners |->
                           [listener |-> after.listeners[i], store |-> after]]]

\* The listeners of the code that uses the store directly, and the one
\* useSyncExternalStore passes to subscribe.
Listeners == {"l1", "l2"}
ReactListener == "react"

\* A listener of the client, called: it counts the call and reads the
\* store with counterStore.getSnapshot().
RECURSIVE Hear(_, _)
Hear(heard, calls) ==
    IF calls = <<>> THEN heard
    ELSE LET c == Head(calls)
             h == IF c.listener \in Listeners
                  THEN [heard EXCEPT ![c.listener] =
                          [n |-> @.n + 1,
                           last |-> getSnapshot(StoreThis, c.store).state]]
                  ELSE heard
         IN  Hear(h, Tail(calls))

\* ------------------------------------------------- intervals and effects

\* setInterval(callback, 1000): the timers with one more active interval,
\* and its id; clearInterval(id).
setInterval(tm) ==
    [timers |-> [next |-> tm.next + 1, active |-> tm.active \cup {tm.next}],
     id |-> tm.next]
clearInterval(tm, id) == [tm EXCEPT !.active = @ \ {id}]

NoTimer == Null
TimerId(id) == [kind |-> "number", n |-> id]
NoEffect == [kind |-> "none"]

\* startTimer without its first line
startTimerAgain(tm, ref) ==
    LET t == setInterval(tm)
    IN  [timers |-> t.timers, ref |-> TimerId(t.id)]

\* startTimer of the useRef Timer: the timers and timerRef.current after it.
startTimer(tm, ref) ==
    IF ~Falsy(ref) THEN [timers |-> tm, ref |-> ref]
    ELSE LET t == setInterval(tm)
         IN  [timers |-> t.timers, ref |-> TimerId(t.id)]

\* stopTimer without its clearInterval call
stopTimerRefOnly(tm, ref) == [timers |-> tm, ref |-> Null]

\* stopTimer of the useRef Timer.
stopTimer(tm, ref) ==
    IF ~Falsy(ref) THEN [timers |-> clearInterval(tm, ref.n), ref |-> Null]
    ELSE [timers |-> tm, ref |-> ref]

\* The people of the select, and the bio the server returns for a person.
People == {"Alice", "Bob"}
BioOf(person) == [kind |-> "bio", of |-> person]

\* EffectDeps with every dependency array empty
EffectDepsEmpty(comp, cells) == <<>>

\* The dependency array of a component's effect.
EffectDeps(comp, cells) ==
    CASE comp = "CalculationEffect" -> <<cells.count>>
      [] comp = "AsyncDataFetcher"  -> <<cells.person>>
      [] OTHER                      -> <<>>

\* The body of a component's effect, run after a render that showed cells:
\* the timers and fetches after it, what its closure holds, and the state
\* updates it makes.
EffectRun(comp, cells, tm, fts, eff) ==
    CASE comp = "EffectTimer" ->
           LET t == setInterval(tm)
           IN  [timers |-> t.timers, fetches |-> fts, updates |-> <<>>,
                effect |-> [kind |-> "interval", timer |-> t.id]]
      [] comp = "CalculationEffect" ->
           [timers |-> tm, fetches |-> fts, effect |-> eff,
            updates |-> <<SetState("calculation", cells.count * 2)>>]
      [] comp = "AsyncDataFetcher" ->
           LET id == IF eff = NoEffect THEN 1 ELSE eff.id + 1
           IN  [timers |-> tm, updates |-> <<>>,
                fetches |-> fts \cup {[id |-> id, person |-> cells.person,
                                       ignore |-> FALSE, state |-> "pending"]},
                effect |-> [kind |-> "fetch", id |-> id]]

\* fetchBio after its awaits, with the test of ignore left out
fetchBioUnchecked(f) == <<SetState("bio", BioOf(f.person))>>

\* fetchBio after its two awaits: if (!ignore) setBio(result).
fetchBio(f) ==
    IF ~f.ignore THEN <<SetState("bio", BioOf(f.person))>> ELSE <<>>

\* EffectCleanup of a component whose effects return no cleanup function
EffectCleanupMissing(comp, tm, fts, eff) ==
    [timers |-> tm, fetches |-> fts]

\* The cleanup function the last run of the effect returned, called before
\* the effect runs again and when the component unmounts.
EffectCleanup(comp, tm, fts, eff) ==
    CASE comp = "EffectTimer" ->
           [timers |-> clearInterval(tm, eff.timer), fetches |-> fts]
      [] comp = "AsyncDataFetcher" ->
           [timers |-> tm,
            fetches |-> {IF f.id = eff.id THEN [f EXCEPT !.ignore = TRUE] ELSE f :
                           f \in fts}]
      [] OTHER -> [timers |-> tm, fetches |-> fts]

OutsideInit ==
    /\ counterStore = [value |-> 0, listeners |-> <<>>]
    /\ client = [heard |-> [l \in Listeners |-> [n |-> 0, last |-> 0]],
                 unsubs |-> {}]
    /\ timers = [next |-> 1, active |-> {}]
    /\ timerRef = NoTimer
    /\ effect = NoEffect
    /\ fetches = {}

\* ------------------------------------------------------------------ Init

Init ==
    /\ mounted \in AllComponents
    /\ phase = "new"
    /\ hook = InitialCells(mounted)
    /\ view = InitialCells(mounted)
    /\ queue = <<>>
    /\ now = ClockStart
    /\ initialFormState = InitialFormFields
    /\ authResult = NotCalled
    /\ clicks = NoClicks
    /\ call = NoCall
    /\ OutsideInit

\* --------------------------------------------------------------- renders

\* The first render of the component.
Mount ==
    /\ phase = "new"
    /\ mounted \in PlainComponents
    /\ authResult' = RenderAuth(mounted, hook)
    /\ phase' = IF authResult'.threw THEN "crashed" ELSE "mounted"
    /\ view' = hook
    /\ UNCHANGED <<mounted, hook, queue, now, initialFormState, clicks, call, outside>>

\* A re-render: the queued updates are applied in order and the result is
\* committed and shown; a reducer or hook that throws aborts the render and
\* nothing is committed.
Render ==
    /\ phase = "mounted"
    /\ mounted \in PlainComponents
    /\ queue # <<>>
    /\ LET r == Process(mounted, hook, queue, now, initialFormState)
       IN  IF r.threw
           THEN /\ phase' = "crashed"
                /\ UNCHANGED <<hook, view, queue, initialFormState, authResult>>
           ELSE /\ hook' = r.cells
                /\ view' = r.cells
                /\ queue' = <<>>
                /\ initialFormState' = r.ifs
                /\ authResult' = RenderAuth(mounted, r.cells)
                /\ phase' = IF authResult'.threw THEN "crashed" ELSE "mounted"
    /\ UNCHANGED <<mounted, now, clicks, call, outside>>

\* The clock that Date.now() reads advances.
Tick ==
    /\ mounted = "TodoList"
    /\ now < ClockStart + MaxTicks
    /\ now' = now + 1
    /\ UNCHANGED <<mounted, phase, hook, queue, view, initialFormState,
                   authResult, clicks, call, outside>>

\* -------------------------------------------------------------- handlers

QueueBound == IF mounted = "TodoList" THEN MaxTodoQueue ELSE MaxQueue
CanHandle == phase = "mounted" /\ Len(queue) < QueueBound

Enqueue(updates) ==
    /\ queue' = queue \o updates
    /\ UNCHANGED <<mounted, phase, hook, view, now, initialFormState,
                   authResult, call, outside>>

\* useState.jsx Counter: onClick={() => setCount(count + 1)}
CounterIncrement ==
    /\ CanHandle /\ mounted = "Counter"
    /\ clicks.inc < MaxCount
    /\ Enqueue(<<SetState("count", view.count + 1)>>)
    /\ clicks' = [clicks EXCEPT !.inc = @ + 1]

\* The Increment buttons of CounterWithReducer and of useReducer.jsx Counter.
ClickIncrement ==
    /\ CanHandle /\ mounted \in {"CounterWithReducer", "ReducerCounter"}
    /\ clicks.inc < MaxCount
    /\ Enqueue(<<DispatchOf(mounted, [type |-> "increment"])>>)
    /\ clicks' = [clicks EXCEPT !.inc = @ + 1]

ClickDecrement ==
    /\ CanHandle /\ mounted \in {"CounterWithReducer", "ReducerCounter"}
    /\ view.state.count > -MaxCount
    /\ Enqueue(<<DispatchOf(mounted, [type |-> "decrement"])>>)
    /\ clicks' = [clicks EXCEPT !.other = TRUE]

ClickReset ==
    /\ CanHandle /\ mounted = "CounterWithReducer"
    /\ Enqueue(<<DispatchOf(mounted, [type |-> "reset"])>>)
    /\ clicks' = [clicks EXCEPT !.other = TRUE]

\* The tags a component's own handlers dispatch.
HandlerTags(comp) ==
    CASE comp = "CounterWithReducer" -> {"increment", "decrement", "reset"}
      [] comp = "ReducerCounter"     -> {"increment", "decrement"}
      [] comp = "TodoList"           -> {"add", "toggle", "delete"}
      [] comp = "Form"               -> {"updateField", "reset"}

\* dispatch called with a tag none of the component's handlers uses.
DispatchOther ==
    /\ CanHandle /\ mounted \in ReducerComponents
    /\ \E tag \in OtherTags \ HandlerTags(mounted) :
         Enqueue(<<DispatchOf(mounted, [type |-> tag])>>)
    /\ clicks' = [clicks EXCEPT !.other = TRUE]

\* UserProfile: the onChange handlers of the two inputs.
updateName ==
    /\ CanHandle /\ mounted = "UserProfile"
    /\ \E v \in Typed : Enqueue(<<SetStateWith("user", "name", v)>>)
    /\ UNCHANGED clicks

updateAge ==
    /\ CanHandle /\ mounted = "UserProfile"
    /\ \E v \in Typed : Enqueue(<<SetStateWith("user", "age", v)>>)
    /\ UNCHANGED clicks

\* TodoList
PendingAdds ==
    Cardinality({i \in DOMAIN queue :
                   queue[i].kind = "action" /\ queue[i].action.type = "add"})

ChangeNewTodo ==
    /\ CanHandle /\ mounted = "TodoList"
    /\ \E v \in Titles : v # view.newTodo /\ Enqueue(<<SetState("newTodo", v)>>)
    /\ UNCHANGED clicks

handleAddTodo ==
    /\ CanHandle /\ mounted = "TodoList"
    /\ Len(view.todos) + PendingAdds < MaxTodos
    /\ Enqueue(<<DispatchOf(mounted, [type |-> "add", title |-> view.newTodo]),
                 SetState("newTodo", "")>>)
    /\ UNCHANGED clicks

ToggleTodo ==
    /\ CanHandle /\ mounted = "TodoList"
    /\ \E i \in DOMAIN view.todos :
         Enqueue(<<DispatchOf(mounted, [type |-> "toggle", id |-> view.todos[i].id])>>)
    /\ UNCHANGED clicks

DeleteTodo ==
    /\ CanHandle /\ mounted = "TodoList"
    /\ \E i \in DOMAIN view.todos :
         Enqueue(<<DispatchOf(mounted, [type |-> "delete", id |-> view.todos[i].id])>>)
    /\ UNCHANGED clicks

\* Form: the inputs dispatch updateField for username and email; a dispatch
\* naming another field is the caller's choice of action.field.
UpdateField ==
    /\ CanHandle /\ mounted = "Form"
    /\ \E f \in FieldNames, v \in Typed :
         Enqueue(<<DispatchOf(mounted, [type |-> "updateField", field |-> f,
                                        value |-> v])>>)
    /\ UNCHANGED clicks

ResetForm ==
    /\ CanHandle /\ mounted = "Form"
    /\ Enqueue(<<DispatchOf(mounted, [type |-> "reset"])>>)
    /\ UNCHANGED clicks

\* AuthProvider's login and logout, and AuthComponent's button.
login == SetState("isAuthenticated", TRUE)
logout == SetState("isAuthenticated", FALSE)

ClickAuthButton ==
    /\ CanHandle /\ mounted = "AuthApp"
    /\ Enqueue(<<IF authResult.state.isAuthenticated THEN logout ELSE login>>)
    /\ UNCHANGED clicks

\* ------------------------------------------------- counterStore in use

\* The first render of the useSyncExternalStore Counter.  The hook is given
\* counterStore.subscribe and counterStore.getSnapshot, taken off the store:
\* the render calls getSnapshot() and the commit calls subscribe(listener),
\* both without a receiver.
MountStoreCounter ==
    /\ mounted = "StoreCounter" /\ phase = "new"
    /\ LET snap == getSnapshot(UndefinedThis, counterStore)
           sub == subscribe(UndefinedThis, counterStore, ReactListener)
       IN  IF snap.threw \/ sub.threw
           THEN /\ phase' = "crashed"
                /\ UNCHANGED <<hook, view, counterStore, effect>>
           ELSE /\ phase' = "mounted"
                /\ hook' = [count |-> snap.state]
                /\ view' = [count |-> snap.state]
                /\ counterStore' = sub.store
                /\ effect' = [kind |-> "subscription",
                              unsubscribe |-> sub.unsubscribe]
    /\ UNCHANGED <<mounted, queue, now, initialFormState, authResult, clicks,
                   call, client, timers, timerRef, fetches>>

\* counterStore.increment(), called as a method: by the Counter's button,
\* onClick={() => counterStore.increment()}, or by other code.  A listener
\* of the client counts the call and reads the store; React's listener
\* reads getSnapshot() again, without a receiver, and re-renders the
\* Counter with what it read.
StoreIncrement ==
    /\ \/ mounted = "StoreClient"
       \/ mounted = "StoreCounter" /\ phase = "mounted"
    /\ counterStore.value < MaxCount
    /\ LET r == increment(StoreThis, counterStore)
           toReact == \E i \in DOMAIN r.calls :
                         r.calls[i].listener = ReactListener
           snap == getSnapshot(UndefinedThis, r.store)
       IN  /\ counterStore' = r.store
           /\ client' = [client EXCEPT !.heard = Hear(@, r.calls)]
           /\ IF ~toReact THEN UNCHANGED <<phase, hook, view>>
              ELSE IF snap.threw
                   THEN phase' = "crashed" /\ UNCHANGED <<hook, view>>
                   ELSE /\ hook' = [count |-> snap.state]
                        /\ view' = [count |-> snap.state]
                        /\ UNCHANGED phase
    /\ UNCHANGED <<mounted, queue, now, initialFormState, authResult, clicks,
                   call, timers, timerRef, effect, fetches>>

\* counterStore.subscribe(l), called as a method; the caller keeps the
\* function it returns.
ClientSubscribe(l) ==
    /\ mounted = "StoreClient"
    /\ LET r == subscribe(StoreThis, counterStore, l)
       IN  /\ counterStore' = r.store
           /\ client' = [client EXCEPT !.unsubs = @ \cup {r.unsubscribe}]
    /\ UNCHANGED <<mounted, phase, hook, queue, view, now, initialFormState,
                   authResult, clicks, call, timers, timerRef, effect, fetches>>

\* A function that subscribe(l) returned is called.
ClientUnsubscribe(l) ==
    /\ mounted = "StoreClient"
    /\ l \in client.unsubs
    /\ counterStore' = unsubscribe(counterStore, l)
    /\ UNCHANGED <<mounted, phase, hook, queue, view, now, initialFormState,
                   authResult, clicks, call, client, timers, timerRef, effect,
                   fetches>>

\* ------------------------------------------- components with effects

\* The first render of a component with a useEffect, and the first run of
\* its effect.
MountEffects ==
    /\ phase = "new"
    /\ mounted \in EffectComponents
    /\ LET e == EffectRun(mounted, hook, timers, fetches, effect)
       IN  /\ timers' = e.timers
           /\ fetches' = e.fetches
           /\ effect' = e.effect
           /\ queue' = e.updates
    /\ phase' = "mounted"
    /\ view' = hook
    /\ clicks' = [clicks EXCEPT !.effects = @ + 1]
    /\ UNCHANGED <<mounted, hook, now, initialFormState, authResult, call,
                   counterStore, client, timerRef>>

\* A re-render of a component with a useEffect: the queued updates are
\* applied and committed; when a dependency of the effect differs from the
\* last render's, the last run's cleanup is called and the effect runs.
RenderEffects ==
    /\ phase = "mounted"
    /\ mounted \in EffectComponents
    /\ queue # <<>>
    /\ LET r == Process(mounted, hook, queue, now, initialFormState)
           c == EffectCleanup(mounted, timers, fetches, effect)
           e == EffectRun(mounted, r.cells, c.timers, c.fetches, effect)
       IN  /\ hook' = r.cells
           /\ view' = r.cells
           /\ IF EffectDeps(mounted, r.cells) # EffectDeps(mounted, hook)
              THEN /\ timers' = e.timers
                   /\ fetches' = e.fetches
                   /\ effect' = e.effect
                   /\ queue' = e.updates
                   /\ clicks' = [clicks EXCEPT !.effects = @ + 1,
                                               !.renders = @ + 1]
              ELSE /\ queue' = <<>>
                   /\ clicks' = [clicks EXCEPT !.renders = @ + 1]
                   /\ UNCHANGED <<timers, fetches, effect>>
    /\ UNCHANGED <<mounted, phase, now, initialFormState, authResult, call,
                   counterStore, client, timerRef>>

\* The component is removed from the page: the cleanup of its effect is
\* called.  The useRef Timer has no effect and so no cleanup.
Unmount ==
    /\ phase = "mounted"
    /\ mounted \in EffectComponents \cup {"RefTimer"}
    /\ LET c == EffectCleanup(mounted, timers, fetches, effect)
       IN  timers' = c.timers /\ fetches' = c.fetches
    /\ phase' = "unmounted"
    /\ UNCHANGED <<mounted, hook, queue, view, now, initialFormState,
                   authResult, clicks, call, counterStore, client, timerRef,
                   effect>>

\* The cell an interval's callback counts in.
TickCell == IF mounted = "RefTimer" THEN "seconds" ELSE "count"

\* An active interval fires: setCount((count) => count + 1) in the
\* useEffect Timer, setSeconds((prev) => prev + 1) in the useRef Timer.
IntervalTick(id) ==
    /\ id \in timers.active
    /\ Len(queue) < MaxQueue
    /\ hook[TickCell] < MaxCount
    /\ queue' = Append(queue, SetStatePlus(TickCell, 1))
    /\ clicks' = [clicks EXCEPT !.inc = @ + 1]
    /\ UNCHANGED <<mounted, phase, hook, view, now, initialFormState,
                   authResult, call, outside>>

\* The methods of the handle Modal exposes with useImperativeHandle.
open == SetState("isOpen", TRUE)
close == SetState("isOpen", FALSE)

\* toggle written against the rendered value, setIsOpen(!isOpen)
toggleRendered == SetState("isOpen", ~view.isOpen)

toggle == SetStateNot("isOpen")

\* What Modal renders: its content with the Close button, or null.
ModalOutput(cells) ==
    IF cells.isOpen THEN [kind |-> "div", closeButton |-> TRUE] ELSE Null

\* ModalController's buttons, onClick={() => modalRef.current?.open()} and
\* the like: modalRef.current is the handle once Modal is mounted.
ModalOpen ==
    /\ CanHandle /\ mounted = "Modal"
    /\ Enqueue(<<open>>)
    /\ UNCHANGED clicks

ModalClose ==
    /\ CanHandle /\ mounted = "Modal"
    /\ Enqueue(<<close>>)
    /\ UNCHANGED clicks

ModalToggle ==
    /\ CanHandle /\ mounted = "Modal"
    /\ Enqueue(<<toggle>>)
    /\ UNCHANGED clicks

\* The Close button inside the modal, onClick={() => setIsOpen(false)}; it
\* is there when the last render returned the content.
ModalCloseButton ==
    /\ CanHandle /\ mounted = "Modal"
    /\ ModalOutput(view) # Null
    /\ Enqueue(<<SetState("isOpen", FALSE)>>)
    /\ UNCHANGED clicks

\* useRef Timer: <button onClick={startTimer}>Start</button>
TimerStart ==
    /\ phase = "mounted" /\ mounted = "RefTimer"
    /\ timers.next <= MaxTimers
    /\ LET r == startTimer(timers, timerRef)
       IN  timers' = r.timers /\ timerRef' = r.ref
    /\ UNCHANGED <<mounted, phase, hook, queue, view, now, initialFormState,
                   authResult, clicks, call, counterStore, client, effect,
                   fetches>>

\* <button onClick={stopTimer}>Stop</button>
TimerStop ==
    /\ phase = "mounted" /\ mounted = "RefTimer"
    /\ LET r == stopTimer(timers, timerRef)
       IN  timers' = r.timers /\ timerRef' = r.ref
    /\ UNCHANGED <<mounted, phase, hook, queue, view, now, initialFormState,
                   authResult, clicks, call, counterStore, client, effect,
                   fetches>>

\* <button onClick={resetTimer}>Reset</button>: stopTimer(); setSeconds(0)
TimerReset ==
    /\ CanHandle /\ mounted = "RefTimer"
    /\ LET r == stopTimer(timers, timerRef)
       IN  timers' = r.timers /\ timerRef' = r.ref
    /\ queue' = Append(queue, SetState("seconds", 0))
    /\ UNCHANGED <<mounted, phase, hook, view, now, initialFormState,
                   authResult, clicks, call, counterStore, client, effect,
                   fetches>>

\* CalculationEffect: onClick={() => setCount(count + 1)}
CalcIncrement ==
    /\ CanHandle /\ mounted = "CalculationEffect"
    /\ view.count < MaxCalcCount
    /\ Enqueue(<<SetState("count", view.count + 1)>>)
    /\ clicks' = [clicks EXCEPT !.inc = @ + 1, !.renders = 0]

\* AsyncDataFetcher: <select onChange={(e) => setPerson(e.target.value)}>,
\* the user picks the other person.
SelectPerson(p) ==
    /\ CanHandle /\ mounted = "AsyncDataFetcher"
    /\ p # view.person
    /\ effect.id < MaxFetches
    /\ Enqueue(<<SetState("person", p)>>)
    /\ UNCHANGED clicks

\* The response of a fetch arrives and fetchBio continues after its awaits.
FetchResolve(f) ==
    /\ f \in fetches /\ f.state = "pending"
    /\ Len(queue) < MaxQueue
    /\ fetches' = (fetches \ {f}) \cup {[f EXCEPT !.state = "resolved"]}
    /\ queue' = queue \o fetchBio(f)
    /\ UNCHANGED <<mounted, phase, hook, view, now, initialFormState,
                   authResult, clicks, call, counterStore, client, timers,
                   timerRef, effect>>

\* The fetch fails: fetchBio ends at its await and sets nothing.
FetchReject(f) ==
    /\ f \in fetches /\ f.state = "pending"
    /\ fetches' = (fetches \ {f}) \cup {[f EXCEPT !.state = "rejected"]}
    /\ UNCHANGED <<mounted, phase, hook, queue, view, now, initialFormState,
                   authResult, clicks, call, counterStore, client, timers,
                   timerRef, effect>>

Next ==
    \/ Mount
    \/ Render
    \/ Tick
    \/ CounterIncrement
    \/ ClickIncrement
    \/ ClickDecrement
    \/ ClickReset
    \/ DispatchOther
    \/ updateName
    \/ updateAge
    \/ ChangeNewTodo
    \/ handleAddTodo
    \/ ToggleTodo
    \/ DeleteTodo
    \/ UpdateField
    \/ ResetForm
    \/ ClickAuthButton
    \/ MountStoreCounter
    \/ StoreIncrement
    \/ \E l \in Listeners : ClientSubscribe(l)
    \/ \E l \in Listeners : ClientUnsubscribe(l)
    \/ MountEffects
    \/ RenderEffects
    \/ Unmount
    \/ \E id \in 1..MaxTimers : IntervalTick(id)
    \/ ModalOpen
    \/ ModalClose
    \/ ModalToggle
    \/ ModalCloseButton
    \/ TimerStart
    \/ TimerStop
    \/ TimerReset
    \/ CalcIncrement
    \/ \E p \in People : SelectPerson(p)
    \/ \E f \in fetches : FetchResolve(f)
    \/ \E f \in fetches : FetchReject(f)

Spec == Init /\ [][Next]_vars

\* CalculationEffect while it stays mounted.  React renders a component
\* after every state update made to it, so a pending render is not put off
\* for ever.
InitCalc == Init /\ mounted = "CalculationEffect"
NextCalc == MountEffects \/ RenderEffects \/ CalcIncrement
SpecCalc == InitCalc /\ [][NextCalc]_vars /\ WF_vars(MountEffects)
               /\ WF_vars(RenderEffects)

\* ------------------------------------------------- reducers called directly

\* The reducers as functions: one reducer is called on a state and an action
\* drawn from bounded sets, once and then again, while the clock may advance
\* between the two calls.
TodoSamples ==
    [id : 1..2, title : {"a"}, completed : BOOLEAN]
TodoListSamples ==
    {<<>>} \cup {<<t>> : t \in TodoSamples}
           \cup {<<t, u>> : t \in TodoSamples, u \in TodoSamples}
FormSamples ==
    {RefInitial} \cup
    {RefOwn(f) : f \in UNION {[S -> Typed] :
                     S \in {{"username", "email"}, FieldNames}}}

StateSamples(comp) ==
    CASE comp = "CounterWithReducer" -> [count : -1..1]
      [] comp = "ReducerCounter"     -> [count : -1..1]
      [] comp = "TodoList"           -> TodoListSamples
      [] comp = "Form"               -> FormSamples

ActionSamples(comp) ==
    CASE comp \in {"CounterWithReducer", "ReducerCounter"} ->
           [type : {"increment", "decrement", "reset", "unknown"}]
      [] comp = "TodoList" ->
           [type : {"add"}, title : Titles]
           \cup [type : {"toggle", "delete"}, id : 1..2]
           \cup [type : {"unknown"}]
      [] comp = "Form" ->
           [type : {"updateField"}, field : FieldNames, value : Typed]
           \cup [type : {"reset", "unknown"}]

InitCalls ==
    /\ mounted \in ReducerComponents
    /\ phase = "new"
    /\ hook = InitialCells(mounted)
    /\ view = InitialCells(mounted)
    /\ queue = <<>>
    /\ now = ClockStart
    /\ initialFormState = InitialFormFields
    /\ authResult = NotCalled
    /\ clicks = NoClicks
    /\ OutsideInit
    /\ \E s \in StateSamples(mounted), a \in ActionSamples(mounted) :
         call = [made |-> TRUE, state |-> s, action |-> a, results |-> <<>>]

\* The reducer is called on the same state and action once more.
CallReducer ==
    /\ Len(call.results) < 2
    /\ LET r == Reduce(mounted, call.state, call.action, now, initialFormState)
       IN  /\ call' = [call EXCEPT !.results = Append(@, r)]
           /\ initialFormState' = IF r.threw THEN initialFormState ELSE r.ifs
    /\ UNCHANGED <<mounted, phase, hook, queue, view, now, authResult, clicks,
                   outside>>

TickCalls ==
    /\ now < ClockStart + MaxTicks
    /\ now' = now + 1
    /\ UNCHANGED <<mounted, phase, hook, queue, view, initialFormState,
                   authResult, clicks, call, outside>>

NextCalls == CallReducer \/ TickCalls

SpecCalls == InitCalls /\ [][NextCalls]_vars

\* ----------------------------------------------------------------- claims

\* The recognized set of each reducer, as the error-handling section lists them.
RecognizedTags(comp) ==
    CASE comp \in {"CounterWithReducer", "ReducerCounter"} ->
           {"increment", "decrement", "reset"}
      [] comp = "TodoList" -> {"add", "toggle", "delete"}
      [] comp = "Form"     -> {"updateField", "reset"}

\* The queue holds a dispatched action whose tag is outside the recognized set.
Poisoned ==
    \E i \in DOMAIN queue :
        queue[i].kind = "action" /\ queue[i].action.type \notin RecognizedTags(mounted)

ReducerState == hook[ReducerCell(mounted)]

\* C1: each of the four reducers, called with the state the component holds
\* and an action whose tag is outside its recognized set, throws; the render
\* that meets such an action commits nothing, so the state the component holds
\* and shows is what it was before the dispatch.
C1_UnknownTagThrows ==
    /\ [](mounted \in ReducerComponents =>
            \A tag \in ActionTags \ RecognizedTags(mounted) :
                Reduce(mounted, ReducerState, [type |-> tag], now,
                       initialFormState).threw)
    /\ [][(mounted \in ReducerComponents /\ Poisoned) =>
            /\ hook' = hook /\ view' = view
            /\ initialFormState' = initialFormState
            /\ (Render => phase' = "crashed")]_vars

C1_Witness ==
    /\ mounted \in ReducerComponents
    /\ phase = "crashed"
    /\ Poisoned
    /\ hook # InitialCells(mounted)

\* C2 as stated: in both counter components a dispatched increment, decrement
\* or reset is taken without an error, to count + 1, count - 1 and 0.
C2_BothTakeReset ==
    [][(Render /\ mounted \in {"CounterWithReducer", "ReducerCounter"}
          /\ Len(queue) = 1
          /\ queue[1].action.type \in {"increment", "decrement", "reset"}) =>
         LET c == ReducerState.count
             tag == queue[1].action.type
         IN  /\ phase' = "mounted"
             /\ hook'.state.count = CASE tag = "increment" -> c + 1
                                      [] tag = "decrement" -> c - 1
                                      [] tag = "reset"     -> 0]_vars

\* C2, amended: reducer (useState.jsx) takes increment, decrement and reset to
\* count + 1, count - 1 and 0; counterReducer (useReducer.jsx) takes increment
\* and decrement to count + 1 and count - 1, and throws on reset.
C2_CounterTags ==
    /\ mounted = "CounterWithReducer" =>
         LET c == ReducerState.count
         IN  /\ reducer(ReducerState, [type |-> "increment"]) = Returned([count |-> c + 1])
             /\ reducer(ReducerState, [type |-> "decrement"]) = Returned([count |-> c - 1])
             /\ reducer(ReducerState, [type |-> "reset"]) = Returned([count |-> 0])
    /\ mounted = "ReducerCounter" =>
         LET c == ReducerState.count
         IN  /\ counterReducer(ReducerState, [type |-> "increment"]) = Returned([count |-> c + 1])
             /\ counterReducer(ReducerState, [type |-> "decrement"]) = Returned([count |-> c - 1])
             /\ counterReducer(ReducerState, [type |-> "reset"]).threw

C2_Witness ==
    /\ mounted = "ReducerCounter"
    /\ phase = "crashed"
    /\ ReducerState.count # 0
    /\ queue = <<DispatchOf(mounted, [type |-> "reset"])>>

\* A render of TodoList whose queue is one dispatched action of the given tag.
RendersOne(tag) ==
    /\ Render /\ mounted = "TodoList"
    /\ Len(queue) = 1 /\ queue[1].kind = "action" /\ queue[1].action.type = tag

RemoveAt(list, i) == SubSeq(list, 1, i - 1) \o SubSeq(list, i + 1, Len(list))

\* C3: in a list reached from initialTodos by add, toggle and delete, a toggle
\* that carries the id of one todo of the list flips the completed flag of that
\* todo only; every other todo, the length and the order stay as they were.
C3_ToggleFlipsOne ==
    [][(RendersOne("toggle")
          /\ \E i \in DOMAIN hook.todos : hook.todos[i].id = queue[1].action.id) =>
         \E i \in DOMAIN hook.todos :
            /\ hook.todos[i].id = queue[1].action.id
            /\ hook'.todos = [hook.todos EXCEPT ![i].completed = ~@]]_vars

\* The count a counter component shows.
DisplayedCount == IF mounted = "Counter" THEN view.count ELSE view.state.count

\* C4: in each of the three counter components, once n clicks on Increment and
\* nothing else have been handled and rendered, the count shown is n, however
\* the renders fell between the clicks.
C4_CountIsClicks ==
    (mounted \in CounterComponents /\ phase = "mounted" /\ queue = <<>>
       /\ ~clicks.other) =>
        DisplayedCount = clicks.inc

\* C5: an add appends exactly one todo at the end, with the action's title and
\* completed = FALSE; the todos before it keep their places and fields.
C5_AddAppends ==
    /\ [](mounted = "TodoList" =>
            \A t \in Titles :
               LET r == todoReducer(hook.todos, [type |-> "add", title |-> t], now)
                   n == Len(hook.todos)
               IN  /\ ~r.threw
                   /\ Len(r.state) = n + 1
                   /\ SubSeq(r.state, 1, n) = hook.todos
                   /\ r.state[n + 1].title = t
                   /\ r.state[n + 1].completed = FALSE)
    /\ [][(Render /\ mounted = "TodoList" /\ Len(queue) = 2
             /\ queue[1].kind = "action" /\ queue[1].action.type = "add"
             /\ queue[2] = SetState("newTodo", "")) =>
            LET n == Len(hook.todos)
            IN  /\ Len(hook'.todos) = n + 1
                /\ SubSeq(hook'.todos, 1, n) = hook.todos
                /\ hook'.todos[n + 1].title = queue[1].action.title
                /\ hook'.todos[n + 1].completed = FALSE
                /\ hook'.newTodo = ""]_vars

C5_Witness ==
    /\ mounted = "TodoList" /\ phase = "mounted" /\ queue = <<>>
    /\ Len(hook.todos) = 2
    /\ hook.todos[1].id = 2
    /\ hook.todos[2] = [id |-> now, title |-> "a", completed |-> FALSE]

\* C6: a delete with id i returns the list without the todos whose id is i, the
\* others unchanged and in order, and the same list when no todo has id i; so a
\* click on Delete of one shown todo removes that todo and no other.
C6_DeleteRemovesOne ==
    /\ [](mounted = "TodoList" =>
            \A id \in 1..(ClockStart + MaxTicks) :
               LET r == todoReducer(hook.todos, [type |-> "delete", id |-> id], now)
               IN  /\ ~r.threw
                   /\ \A j \in DOMAIN r.state : r.state[j].id # id
                   /\ (\A j \in DOMAIN hook.todos : hook.todos[j].id # id)
                        => r.state = hook.todos)
    /\ [][(RendersOne("delete")
             /\ \E i \in DOMAIN hook.todos : hook.todos[i].id = queue[1].action.id) =>
            \E i \in DOMAIN hook.todos :
               /\ hook.todos[i].id = queue[1].action.id
               /\ hook'.todos = RemoveAt(hook.todos, i)]_vars

\* The value the last queued updater of a field carries, or a default.
RECURSIVE LastQueued(_, _, _)
LastQueued(q, field, default) ==
    IF q = <<>> THEN default
    ELSE IF q[Len(q)].field = field THEN q[Len(q)].value
         ELSE LastQueued(SubSeq(q, 1, Len(q) - 1), field, default)

\* C7: every edit of UserProfile gives a record that is the previous one with
\* one field replaced: updateName sets name and keeps age, updateAge sets age
\* and keeps name, also when several edits are queued before one render; the
\* record always has exactly the fields name and age.
C7_ShallowMerge ==
    /\ [](mounted = "UserProfile" =>
            /\ DOMAIN hook.user = {"name", "age"}
            /\ \A v \in Typed :
                 /\ ApplyUpdate(mounted, hook, SetStateWith("user", "name", v),
                                now, initialFormState).cells.user
                      = [name |-> v, age |-> hook.user.age]
                 /\ ApplyUpdate(mounted, hook, SetStateWith("user", "age", v),
                                now, initialFormState).cells.user
                      = [name |-> hook.user.name, age |-> v])
    /\ [][(Render /\ mounted = "UserProfile") =>
            hook'.user = [name |-> LastQueued(queue, "name", hook.user.name),
                          age  |-> LastQueued(queue, "age", hook.user.age)]]_vars

C7_Witness ==
    /\ mounted = "UserProfile" /\ phase = "mounted"
    /\ hook.user = [name |-> "a", age |-> ""]
    /\ queue = <<SetStateWith("user", "name", ""), SetStateWith("user", "age", "a")>>

\* C8: whatever updateField actions came before, also ones that name a field
\* other than username and email, a reset leaves the form state equal to
\* {username: "", email: ""}; no action changes the initialFormState object.
C8_ResetRestoresInitial ==
    /\ [](mounted = "Form" =>
            /\ initialFormState = [username |-> "", email |-> ""]
            /\ LET r == formReducer(hook.state, [type |-> "reset"], initialFormState)
               IN  /\ ~r.threw
                   /\ Deref(r.state, r.ifs) = [username |-> "", email |-> ""])
    /\ [][(Render /\ mounted = "Form" /\ ~Poisoned
             /\ queue[Len(queue)].action.type = "reset") =>
            Deref(hook'.state, initialFormState') = [username |-> "", email |-> ""]]_vars

C8_Witness ==
    /\ mounted = "Form" /\ phase = "mounted"
    /\ hook.state.ref = "own"
    /\ "nickname" \in DOMAIN hook.state.obj
    /\ hook.state.obj["username"] = "a"
    /\ queue = <<DispatchOf(mounted, [type |-> "reset"])>>

\* C9: useAuth throws in a component with no AuthProvider above it; under an
\* AuthProvider it never throws and returns the provider's value
\* {isAuthenticated, login, logout}, whether isAuthenticated is true or false.
C9_UseAuthNeedsProvider ==
    /\ (mounted = "AuthBare" /\ phase # "new") =>
          (authResult.threw /\ phase = "crashed")
    /\ (mounted = "AuthApp" /\ phase # "new") =>
          /\ phase = "mounted"
          /\ ~authResult.threw
          /\ authResult.state = [kind |-> "object",
                                 isAuthenticated |-> hook.isAuthenticated,
                                 login |-> "login", logout |-> "logout"]
          /\ ~useAuth(AuthContext(mounted, [isAuthenticated |-> TRUE])).threw
          /\ ~useAuth(AuthContext(mounted, [isAuthenticated |-> FALSE])).threw

C9_Witness ==
    /\ mounted = "AuthApp" /\ phase = "mounted" /\ queue = <<>>
    /\ hook.isAuthenticated
    /\ authResult.state.isAuthenticated

\* C10: every reducer is a function of (state, action) alone: two calls with
\* the same state and the same action return the same next state, and neither
\* changes anything outside its result.
C10_ReducersPure ==
    (call.made /\ Len(call.results) = 2) =>
        /\ call.results[1] = call.results[2]
        /\ initialFormState = [username |-> "", email |-> ""]

\* C11: a call of counterStore.increment() as a method raises value by
\* exactly one and then calls every listener that is in the set exactly
\* once, and no other; the value is raised before any listener runs, so a
\* listener that reads getSnapshot() during the notification reads the new
\* value.
C11_IncrementNotifies ==
    [][StoreIncrement =>
         /\ counterStore'.value = counterStore.value + 1
         /\ \A l \in Listeners :
              client'.heard[l] =
                IF SetHas(counterStore.listeners, l)
                THEN [n |-> client.heard[l].n + 1, last |-> counterStore'.value]
                ELSE client.heard[l]]_vars

\* Two increments: the first heard by l1 alone, the second by l1 and l2.
C11_Witness ==
    /\ mounted = "StoreClient"
    /\ counterStore.value = 2
    /\ client.heard["l1"] = [n |-> 2, last |-> 2]
    /\ client.heard["l2"] = [n |-> 1, last |-> 2]

\* C12: the useSyncExternalStore Counter subscribes to counterStore when it
\* mounts and follows it: once its first render was attempted, the
\* functions it handed to useSyncExternalStore have run without an error,
\* its listener is in counterStore.listeners, and the value it displays is
\* counterStore.value.
C12_CounterFollowsStore ==
    (mounted = "StoreCounter" /\ phase # "new") =>
        /\ phase = "mounted"
        /\ SetHas(counterStore.listeners, ReactListener)
        /\ view.count = counterStore.value

\* C13: the useEffect Timer creates exactly one interval, when it mounts,
\* and clears it when it unmounts: while mounted that interval is the only
\* active one, after the unmount none is active and count is never updated
\* again; each tick raises count by exactly one.
C13_OneIntervalWhileMounted ==
    /\ [](mounted = "EffectTimer" =>
            /\ timers.next = (IF phase = "new" THEN 1 ELSE 2)
            /\ timers.active = (IF phase = "mounted" THEN {effect.timer} ELSE {})
            /\ hook.count + Len(queue) = clicks.inc)
    /\ [][(mounted = "EffectTimer" /\ phase = "unmounted") =>
            (hook' = hook /\ queue' = queue)]_vars

\* The Timer counted two ticks and was unmounted.
C13_Witness ==
    /\ mounted = "EffectTimer"
    /\ phase = "unmounted"
    /\ hook.count = 2
    /\ clicks.inc = 2

\* The setBio calls among the pending updates.
BioUpdates(q) == SelectSeq(q, LAMBDA u : u.cell = "bio")

\* C14: in AsyncDataFetcher a response that arrives after its effect was
\* cleaned up (the component unmounted, or person changed) never calls
\* setBio: the fetches of cleaned-up effects are exactly the ignored ones,
\* and every setBio call is made by the response of the fetch that the most
\* recent effect run started, with that fetch's bio, while mounted.
C14_StaleResponseIgnored ==
    /\ [](mounted = "AsyncDataFetcher" =>
            \A f \in fetches :
                f.ignore <=> (phase = "unmounted" \/ f.id # effect.id))
    /\ [][(mounted = "AsyncDataFetcher"
             /\ Len(BioUpdates(queue')) > Len(BioUpdates(queue))) =>
            /\ phase = "mounted"
            /\ \E f \in fetches :
                 /\ f.state = "pending" /\ f.id = effect.id
                 /\ [f EXCEPT !.state = "resolved"] \in fetches'
                 /\ queue' = Append(queue, SetState("bio", BioOf(f.person)))]_vars

\* Alice's response arrived after the switch to Bob and set nothing; Bob's
\* response set the bio.
C14_Witness ==
    /\ mounted = "AsyncDataFetcher"
    /\ hook = [person |-> "Bob", bio |-> BioOf("Bob")]
    /\ [id |-> 1, person |-> "Alice", ignore |-> TRUE, state |-> "resolved"]
           \in fetches
    /\ [id |-> 2, person |-> "Bob", ignore |-> FALSE, state |-> "resolved"]
           \in fetches

\* C15: for every field name f and value v, formReducer on an updateField
\* action returns a state in which f is v and every other field is as
\* before; a field name the state did not have is added, not rejected; the
\* record that was the previous state is not modified.
C15_UpdateFieldFrame ==
    /\ [](mounted = "Form" =>
            \A f \in FieldNames, v \in Typed :
               LET old == Deref(hook.state, initialFormState)
                   r == formReducer(hook.state,
                                    [type |-> "updateField", field |-> f,
                                     value |-> v], initialFormState)
               IN  /\ ~r.threw
                   /\ DOMAIN Deref(r.state, r.ifs) = (DOMAIN old) \cup {f}
                   /\ Deref(r.state, r.ifs)[f] = v
                   /\ \A k \in (DOMAIN old) \ {f} :
                        Deref(r.state, r.ifs)[k] = old[k]
                   /\ Deref(hook.state, r.ifs) = old)
    /\ [][(Render /\ mounted = "Form" /\ Len(queue) = 1
             /\ queue[1].action.type = "updateField") =>
            LET old == Deref(hook.state, initialFormState)
                new == Deref(hook'.state, initialFormState')
                f == queue[1].action.field
            IN  /\ DOMAIN new = (DOMAIN old) \cup {f}
                /\ new[f] = queue[1].action.value
                /\ \A k \in (DOMAIN old) \ {f} : new[k] = old[k]
                /\ Deref(hook.state, initialFormState') = old]_vars

\* nickname, a field the form did not have, was added next to a typed
\* username.
C15_Witness ==
    /\ mounted = "Form" /\ phase = "mounted"
    /\ queue = <<>>
    /\ hook.state = RefOwn([username |-> "a", email |-> "", nickname |-> "a"])

\* C16: with counterStore as the receiver, subscribe(l) puts l in the set
\* and returns a function that takes l out, other listeners staying as they
\* are; an increment calls l once if l is in the set and not at all if it
\* is not, so l is not called after its unsubscribe until it is subscribed
\* again; the set never holds a listener twice, so a listener subscribed
\* twice is called once per increment and one unsubscribe removes it.
C16_SubscribeUnsubscribe ==
    /\ [](\A i, j \in DOMAIN counterStore.listeners :
             counterStore.listeners[i] = counterStore.listeners[j] => i = j)
    /\ [][\A l \in Listeners :
            /\ ClientSubscribe(l) =>
                 /\ SetHas(counterStore'.listeners, l)
                 /\ l \in client'.unsubs
                 /\ \A m \in Listeners \ {l} :
                      SetHas(counterStore'.listeners, m)
                        <=> SetHas(counterStore.listeners, m)
            /\ ClientUnsubscribe(l) =>
                 /\ ~SetHas(counterStore'.listeners, l)
                 /\ \A m \in Listeners \ {l} :
                      SetHas(counterStore'.listeners, m)
                        <=> SetHas(counterStore.listeners, m)
            /\ StoreIncrement =>
                 client'.heard[l].n = client.heard[l].n
                     + (IF SetHas(counterStore.listeners, l) THEN 1 ELSE 0)]_vars

\* l1 heard one increment and was unsubscribed; l2 heard that one and a
\* later one that l1 did not hear.
C16_Witness ==
    /\ mounted = "StoreClient"
    /\ counterStore = [value |-> 2, listeners |-> <<"l2">>]
    /\ client.unsubs = {"l1", "l2"}
    /\ client.heard["l1"].n = 1
    /\ client.heard["l2"].n = 2

\* C17: in every todo list the TodoList reaches from initialTodos the ids of
\* the todos are pairwise distinct, also when two todos are added while the
\* clock shows the same value.
C17_TodoIdsDistinct ==
    mounted = "TodoList" =>
        \A i, j \in DOMAIN hook.todos :
            hook.todos[i].id = hook.todos[j].id => i = j

\* C18: what AsyncDataFetcher displays is the loading placeholder (bio is
\* null) or the bio that was fetched for the person now selected: the bio
\* of the person selected before is never shown next to the new selection.
C18_BioOfSelectedPerson ==
    mounted = "AsyncDataFetcher" =>
        (view.bio = Null \/ view.bio.of = view.person)

\* C19: in CalculationEffect the effect runs at mount and on exactly the
\* renders in which count changed; after an Increment click at most two
\* renders follow; when no update is pending the component is settled,
\* calculation = 2 * count, and no render is due until the next click; and
\* every pending update leads to such a settled state.
C19_CalculationSettles ==
    /\ [](/\ clicks.renders <= 2
          /\ (phase = "mounted" /\ queue = <<>>) =>
                /\ hook.calculation = 2 * hook.count
                /\ view = hook
                /\ ~ENABLED RenderEffects)
    /\ [][/\ RenderEffects =>
               (clicks'.effects = clicks.effects + 1 <=> hook'.count # hook.count)
          /\ clicks'.effects # clicks.effects => (MountEffects \/ RenderEffects)]_vars
    /\ (queue # <<>>) ~> (queue = <<>> /\ hook.calculation = 2 * hook.count)

\* Settled after a click and its two renders: one for count, one for the
\* calculation the effect set.
C19_Witness ==
    /\ mounted = "CalculationEffect" /\ phase = "mounted"
    /\ queue = <<>>
    /\ clicks.renders = 2
    /\ hook = [count |-> 2, calculation |-> 4]

\* C20: in the useRef Timer, after any Start, Stop and Reset clicks, at
\* most one interval is active and timerRef.current is non-null exactly
\* when one is, and then it is that interval's id; Start while running and
\* Stop while stopped change nothing.
C20_AtMostOneInterval ==
    /\ [](mounted = "RefTimer" =>
            /\ Cardinality(timers.active) <= 1
            /\ timerRef # Null <=> timers.active # {}
            /\ timerRef # Null => timers.active = {timerRef.n})
    /\ [][/\ (TimerStart /\ timerRef # Null) => UNCHANGED vars
          /\ (TimerStop /\ timerRef = Null) => UNCHANGED vars
          /\ (TimerStart /\ timerRef = Null) =>
                (timerRef' # Null /\ timers'.active = {timerRef'.n}
                   /\ timers'.next = timers.next + 1)
          /\ (TimerStop \/ TimerReset) =>
                (timerRef' = Null /\ timers'.active = {})]_vars

\* Started, stopped and started again: the second interval is the only one
\* active, and it has ticked.
C20_Witness ==
    /\ mounted = "RefTimer" /\ phase = "mounted"
    /\ timerRef = TimerId(2)
    /\ timers.active = {2}
    /\ hook.seconds = 2

\* The value of seconds once the setSeconds calls made so far are rendered.
SecondsDue == Process(mounted, hook, queue, now, initialFormState).cells.seconds

C22_UnmountClearsInterval ==
    /\ []((mounted = "RefTimer" /\ phase = "unmounted") => timers.active = {})
    /\ [][(mounted = "RefTimer" /\ phase = "unmounted") => queue' = queue]_vars

\* isOpen after a sequence of calls on the two-state machine.
RECURSIVE ModalAfter(_, _)
ModalAfter(b, q) ==
    IF q = <<>> THEN b
    ELSE ModalAfter(CASE Head(q) = toggle -> ~b
                      [] Head(q) = open   -> TRUE
                      [] Head(q) = close  -> FALSE,
                    Tail(q))

\* C23: the Modal handle is a two-state machine.  isOpen is false at mount;
\* from either state open gives true, close and the modal's Close button
\* give false and toggle gives the negation, so open and close are
\* idempotent and two toggles restore the state, also when both are queued
\* before one render; every render leaves isOpen as the queued calls, taken
\* in order, make it; the content is rendered exactly when isOpen is true.
C23_ModalTwoStates ==
    /\ [](mounted = "Modal" =>
            LET after(q) == Process(mounted, hook, q, now,
                                    initialFormState).cells.isOpen
            IN  /\ phase = "new" => ~hook.isOpen
                /\ after(<<open>>) /\ after(<<open, open>>)
                /\ ~after(<<close>>) /\ ~after(<<close, close>>)
                /\ ~after(<<SetState("isOpen", FALSE)>>)
                /\ after(<<toggle>>) = ~hook.isOpen
                /\ after(<<toggle, toggle>>) = hook.isOpen
                /\ (ModalOutput(view) # Null) <=> hook.isOpen
                /\ ENABLED ModalCloseButton => hook.isOpen)
    /\ [][(Render /\ mounted = "Modal") =>
            /\ hook'.isOpen = ModalAfter(hook.isOpen, queue)
            /\ (ModalOutput(view') # Null) <=> hook'.isOpen]_vars

\* The modal is open and two toggles are queued before the next render.
C23_Witness ==
    /\ mounted = "Modal" /\ phase = "mounted"
    /\ hook.isOpen
    /\ ModalOutput(view) # Null
    /\ queue = <<toggle, toggle>>
====
